---- MODULE Spec2Model ----
(***************************************************************************)
(* Content blocking and restoration of react-cookie-manager               *)
(* (src/unnamed/part_000): the document tree, the enable flag, the         *)
(* mutation observers returned by blockTrackingScripts and the operations  *)
(* createContentPlaceholder, blockTrackingScripts, the observer callback,  *)
(* ensurePlaceholdersVisible and unblockPreviouslyBlockedContent.          *)
(*                                                                         *)
(* Representation.  A node is a record; the tree is the kids field.  A     *)
(* string (URL, keyword, attribute value) is a sequence of tokens and      *)
(* String.includes is contiguous-subsequence containment.  An absent       *)
(* attribute is NoAttr, an empty one is <<>>.  The markup that             *)
(* createPlaceholderContent produces lives in the wrapper's fields         *)
(* content (the placeholder id its settings button is named after, 0 when  *)
(* the wrapper has no "Content Blocked" markup) and listeners (the number  *)
(* of click handlers on that button).  A node of kind "marker" is a div    *)
(* carrying data-cookie-consent-placeholder="true".                        *)
(***************************************************************************)
EXTENDS Integers, Sequences, FiniteSets, TLC

(* ------------------------------ bounds -------------------------------- *)
\* createContentPlaceholder calls that may complete in one behaviour
MaxBlocks == 2
\* observers a behaviour may create with blockTrackingScripts
MaxObservers == 1
\* mutation records an observer may hold undelivered
MaxQueue == 2
\* interferences of other code in one behaviour
MaxInterference == 1
\* observers connected at once where several watchers are studied
MaxWatchers == 2
\* clicks on the controls of one mounted CookieConsenter
MaxClicks == 3

(* ------------------------------ strings ------------------------------- *)
NoAttr == <<"<absent>">>
AboutBlank == <<"about:blank">>
AttrTrue == <<"true">>
\* the page's own base URL, against which a relative src is resolved
PageBase == <<"https://", "page">>
\* the src attributes the host gives its elements: an absolute URL for the
\* first iframe, a relative one for the second, an absolute one for the
\* script
UrlT == <<"https://", "trk", "/e">>
UrlRel == <<"/v">>
UrlS == <<"https://", "trk", "/s">>

\* a JavaScript truthiness test of a string-or-null value
Truthy(s) == s # NoAttr /\ s # <<>>

\* a URL like the first iframe's, its host name in capitals
UrlUpper == <<"https://", "TRK", "/e">>

\* String.prototype.toLowerCase on one token
toLowerCase(t) == IF t = "TRK" THEN "trk" ELSE t

\* includes comparing without regard to case
includesIgnoringCase(s, k) ==
    \E i \in 1..(Len(s) + 1) :
        /\ i + Len(k) - 1 <= Len(s)
        /\ \A j \in 1..Len(k) : toLowerCase(s[i + j - 1]) = toLowerCase(k[j])

\* String.prototype.includes
includes(s, k) ==
    \E i \in 1..(Len(s) + 1) :
        /\ i + Len(k) - 1 <= Len(s)
        /\ \A j \in 1..Len(k) : s[i + j - 1] = k[j]

\* trackingKeywords.some((keyword) => src.includes(keyword))
someIncludes(K, s) == \E i \in 1..Len(K) : includes(s, K[i])

\* the src IDL property of an iframe or script: the attribute parsed
\* against the document's base URL ("" when the attribute is absent)
srcProperty(attr) ==
    IF attr = NoAttr \/ attr = <<>> THEN <<>>
    ELSE IF attr = AboutBlank \/ Head(attr) = "https://" THEN attr
    ELSE PageBase \o attr

\* keyword lists the host passes
KT == << <<"trk">> >>
KV == << <<"yt">>, <<"/v">> >>
KB == << <<"/v">>, <<"trk">> >>
KeywordLists == { <<>>, KT, KV, KB }

(* ------------------------------- nodes -------------------------------- *)
NoNode == 0
Html == 1
Body == 2
Div == 3
Frame1 == 4
Frame2 == 5
Script1 == 6
HostNodes == {Div, Frame1, Frame2, Script1}

NoStyle ==
    [position |-> "", top |-> "", left |-> "", width |-> "", height |-> "",
     opacity |-> "", pointerEvents |-> "", visibility |-> "", zIndex |-> "",
     display |-> "", overflow |-> ""]

NewNode(kind) ==
    [kind |-> kind, kids |-> <<>>, src |-> NoAttr, cb |-> NoAttr,
     os |-> NoAttr, bsrc |-> NoAttr, id |-> 0, content |-> 0,
     listeners |-> 0, style |-> NoStyle]

Range(s) == {s[i] : i \in 1..Len(s)}
Has(s, x) == \E i \in 1..Len(s) : s[i] = x
IndexOf(s, x) == CHOOSE i \in 1..Len(s) : s[i] = x
Without(s, x) == LET keep(y) == y # x IN SelectSeq(s, keep)
InsertAt(s, i, x) == SubSeq(s, 1, i - 1) \o <<x>> \o SubSeq(s, i, Len(s))

\* node.parentElement
parentElement(n, x) ==
    LET ps == {p \in DOMAIN n : Has(n[p].kids, x)}
    IN  IF ps = {} THEN NoNode ELSE CHOOSE p \in ps : TRUE

RECURSIVE DescOfList(_, _)
DescOfList(n, ks) ==
    IF ks = <<>> THEN <<>>
    ELSE <<Head(ks)>> \o DescOfList(n, n[Head(ks)].kids)
                      \o DescOfList(n, Tail(ks))

\* the descendants of x in document order
Descendants(n, x) == DescOfList(n, n[x].kids)

InDocument(n, x) == x = Html \/ Has(Descendants(n, Html), x)

\* root.querySelectorAll(<kind>) as a static list in document order
querySelectorAll(n, root, kind) ==
    LET is(x) == n[x].kind = kind IN SelectSeq(Descendants(n, root), is)

\* root.querySelector(<kind>)
querySelector(n, root, kind) ==
    LET l == querySelectorAll(n, root, kind)
    IN  IF l = <<>> THEN NoNode ELSE Head(l)

(* ------------------------------ the world ----------------------------- *)
VARIABLES
    blockingEnabled,  \* the module's flag
    nodes,            \* node id -> node record
    nextId,           \* the next unused node id / placeholder id
    observers,        \* the MutationObservers blockTrackingScripts returned
                      \* and the host has not disconnected
    interfered,       \* interferences of other code with blocked content
    uncaught,         \* the last operation was a callback turn in which a
                      \* callback threw (the platform reports the error)
    consenter         \* the mounted CookieConsenter: its React state, the
                      \* timers it has set and the host callbacks called

vars ==
    <<blockingEnabled, nodes, nextId, observers, interfered, uncaught,
      consenter>>

\* an observer: its callback's keyword list, whether observe() was called
\* on it and it is not disconnected, and its record queue (the added nodes
\* of the queued records, in order)
NewObserver(K, observing) ==
    [kw |-> K, observing |-> observing, noop |-> ~observing, queue |-> <<>>]

World ==
    [n |-> nodes, next |-> nextId, obs |-> observers, threw |-> FALSE,
     reported |-> FALSE]

\* a childList record for added node x under parent p is queued to every
\* observer watching the document, when p is in the document; the queue
\* keeps the added nodes a callback looks at, scripts and iframes (lines
\* 207 and 219 pass over every other node)
QueueRecord(W, p, x) ==
    IF InDocument(W.n, p) /\ W.n[x].kind \in {"script", "iframe"}
    THEN [W EXCEPT !.obs =
            [i \in DOMAIN W.obs |->
                IF W.obs[i].observing
                THEN [W.obs[i] EXCEPT !.queue = Append(@, x)]
                ELSE W.obs[i]]]
    ELSE W

\* x leaves its parent, if it has one
Detached(W, x) ==
    LET p == parentElement(W.n, x)
    IN  IF p = NoNode THEN W
        ELSE [W EXCEPT !.n[p].kids = Without(@, x)]

\* parent.appendChild(x)
appendChild(W, p, x) ==
    LET W1 == Detached(W, x)
    IN  QueueRecord([W1 EXCEPT !.n[p].kids = Append(@, x)], p, x)

\* parent.insertBefore(x, ref), ref a child of parent
insertBefore(W, p, x, ref) ==
    LET W1 == Detached(W, x)
    IN  QueueRecord(
          [W1 EXCEPT !.n[p].kids = InsertAt(@, IndexOf(@, ref), x)], p, x)

\* parent.replaceChild(x, old), old a child of parent
replaceChild(W, p, x, old) ==
    LET W1 == Detached(W, x)
    IN  QueueRecord(
          [W1 EXCEPT !.n[p].kids =
              [i \in DOMAIN @ |-> IF @[i] = old THEN x ELSE @[i]]], p, x)

\* node.remove()
remove(W, x) == Detached(W, x)

(* ------------------------- style / markup builder --------------------- *)
\* x || fallback on a style value
OrElse(v, fallback) == IF v = "" THEN fallback ELSE v

\* applyWrapperStyles deaf to its width and height arguments: the wrapper
\* always gets the default size
applyWrapperStylesDefaultSize(W, wrapper, width, height) ==
    [W EXCEPT !.n[wrapper].style =
        [@ EXCEPT !.position = "relative", !.width = "100%",
                  !.height = "315px", !.display = "flex",
                  !.overflow = "hidden"]]

\* lines 21-45
applyWrapperStyles(W, wrapper, width, height) ==
    [W EXCEPT !.n[wrapper].style =
        [@ EXCEPT !.position = "relative", !.width = width,
                  !.height = height, !.display = "flex",
                  !.overflow = "hidden"]]

\* wrapper.innerHTML = createPlaceholderContent(placeholderId): the
\* wrapper's children are replaced by the markup, whose settings button
\* (id cookie-settings-<placeholderId>) has no listener yet
setInnerHTML(W, wrapper, placeholderId) ==
    [W EXCEPT !.n[wrapper].kids = <<>>,
              !.n[wrapper].content = placeholderId,
              !.n[wrapper].listeners = 0]

addSettingsButtonListeners(W, placeholderId) ==
    LET has(x) == W.n[x].content = placeholderId
        found == SelectSeq(Descendants(W.n, Html), has)
    IN  IF found = <<>> THEN W
        ELSE [W EXCEPT !.n[Head(found)].listeners = @ + 1]

positionIframeAbsolutely(W, iframe) ==
    [W EXCEPT !.n[iframe].style =
        [@ EXCEPT !.position = "absolute", !.top = "0", !.left = "0",
                  !.width = "1px", !.height = "1px", !.opacity = "0",
                  !.pointerEvents = "none", !.visibility = "hidden",
                  !.zIndex = "-1"]]

(* --------------------------- placeholder factory ---------------------- *)
\* createContentPlaceholder with the parent test of lines 121-123 moved
\* below line 128: the iframe is marked before the test can throw
createContentPlaceholderMarkingFirst(W, iframe, originalSrc) ==
    LET placeholderId == W.next
        parent == parentElement(W.n, iframe)
        wrapper == W.next
        placeholderElement == W.next + 1
        W1 == [W EXCEPT !.n[iframe].cb = AttrTrue,
                        !.n[iframe].os = originalSrc,
                        !.n[iframe].src = AboutBlank]
        W2 == [W1 EXCEPT !.n = @ @@ (wrapper :> NewNode("wrapper")),
                         !.next = @ + 2]
        W3 == applyWrapperStyles(W2, wrapper,
                  OrElse(W2.n[iframe].style.width, "100%"),
                  OrElse(W2.n[iframe].style.height, "315px"))
        W4 == setInnerHTML(W3, wrapper, placeholderId)
        W5 == [W4 EXCEPT !.n = @ @@ (placeholderElement :>
                  [NewNode("marker") EXCEPT
                      !.id = placeholderId, !.bsrc = originalSrc,
                      !.style = [NoStyle EXCEPT !.display = "none"]])]
        W6 == insertBefore(W5, parent, wrapper, iframe)
        W7 == positionIframeAbsolutely(W6, iframe)
        W8 == appendChild(W7, wrapper, iframe)
        W9 == appendChild(W8, wrapper, placeholderElement)
    IN  IF parent = NoNode
        THEN [W1 EXCEPT !.threw = TRUE]
        ELSE addSettingsButtonListeners(W9, placeholderId)

\* lines 110-165
createContentPlaceholder(W, iframe, originalSrc) ==
    LET placeholderId == W.next
        parent == parentElement(W.n, iframe)
        wrapper == W.next
        placeholderElement == W.next + 1
        W1 == [W EXCEPT !.n[iframe].cb = AttrTrue,
                        !.n[iframe].os = originalSrc,
                        !.n[iframe].src = AboutBlank]
        W2 == [W1 EXCEPT !.n = @ @@ (wrapper :> NewNode("wrapper")),
                         !.next = @ + 2]
        W3 == applyWrapperStyles(W2, wrapper,
                  OrElse(W2.n[iframe].style.width, "100%"),
                  OrElse(W2.n[iframe].style.height, "315px"))
        W4 == setInnerHTML(W3, wrapper, placeholderId)
        W5 == [W4 EXCEPT !.n = @ @@ (placeholderElement :>
                  [NewNode("marker") EXCEPT
                      !.id = placeholderId, !.bsrc = originalSrc,
                      !.style = [NoStyle EXCEPT !.display = "none"]])]
        W6 == insertBefore(W5, parent, wrapper, iframe)
        W7 == positionIframeAbsolutely(W6, iframe)
        W8 == appendChild(W7, wrapper, iframe)
        W9 == appendChild(W8, wrapper, placeholderElement)
    IN  IF parent = NoNode
        THEN [W EXCEPT !.threw = TRUE]
        ELSE addSettingsButtonListeners(W9, placeholderId)

(* ---------------------------- mutation watcher ------------------------ *)
\* the script sweep matching keywords without regard to case
RECURSIVE sweepScriptsIgnoringCase(_, _, _)
sweepScriptsIgnoringCase(W, list, trackingKeywords) ==
    IF list = <<>> THEN W
    ELSE LET script == Head(list)
             src == srcProperty(W.n[script].src)
             W1 == IF /\ Truthy(src)
                      /\ \E i \in 1..Len(trackingKeywords) :
                            includesIgnoringCase(src, trackingKeywords[i])
                   THEN remove(W, script)
                   ELSE W
         IN  sweepScriptsIgnoringCase(W1, Tail(list), trackingKeywords)

\* lines 180-187: the sweep over document.querySelectorAll("script")
RECURSIVE sweepScripts(_, _, _)
sweepScripts(W, list, trackingKeywords) ==
    IF list = <<>> THEN W
    ELSE LET script == Head(list)
             src == srcProperty(W.n[script].src)
             W1 == IF Truthy(src) /\ someIncludes(trackingKeywords, src)
                   THEN remove(W, script)
                   ELSE W
         IN  sweepScripts(W1, Tail(list), trackingKeywords)

\* the iframe sweep looking at data-original-src before el.src
RECURSIVE sweepIframesByRecordedSrc(_, _, _, _)
sweepIframesByRecordedSrc(W, list, enabled, trackingKeywords) ==
    IF list = <<>> \/ W.threw THEN W
    ELSE LET el == Head(list)
             src == IF Truthy(W.n[el].os) THEN W.n[el].os
                    ELSE srcProperty(W.n[el].src)
             W1 == IF /\ enabled
                      /\ Truthy(src)
                      /\ src # AboutBlank
                      /\ someIncludes(trackingKeywords, src)
                   THEN createContentPlaceholder(W, el, src)
                   ELSE W
         IN  sweepIframesByRecordedSrc(W1, Tail(list), enabled,
                                       trackingKeywords)

\* the iframe sweep reading getAttribute("src") where lines 194-198 read
\* el.src
RECURSIVE sweepIframesByAttribute(_, _, _, _)
sweepIframesByAttribute(W, list, enabled, trackingKeywords) ==
    IF list = <<>> \/ W.threw THEN W
    ELSE LET el == Head(list)
             src == W.n[el].src
             W1 == IF /\ enabled
                      /\ Truthy(src)
                      /\ src # AboutBlank
                      /\ someIncludes(trackingKeywords, src)
                   THEN createContentPlaceholder(W, el, src)
                   ELSE W
         IN  sweepIframesByAttribute(W1, Tail(list), enabled,
                                     trackingKeywords)

\* lines 190-200: the sweep over document.querySelectorAll("iframe")
RECURSIVE sweepIframes(_, _, _, _)
sweepIframes(W, list, enabled, trackingKeywords) ==
    IF list = <<>> \/ W.threw THEN W
    ELSE LET el == Head(list)
             src == srcProperty(W.n[el].src)
             W1 == IF /\ enabled
                      /\ Truthy(src)
                      /\ src # AboutBlank
                      /\ someIncludes(trackingKeywords, src)
                   THEN createContentPlaceholder(W, el, src)
                   ELSE W
         IN  sweepIframes(W1, Tail(list), enabled, trackingKeywords)

\* the observer's callback going over every iframe of the document once
\* the batch is done
RECURSIVE observerCallbackSweeping(_, _, _, _)
observerCallbackSweeping(W, batch, enabled, trackingKeywords) ==
    IF W.threw THEN W
    ELSE IF batch = <<>>
    THEN sweepIframes(W, querySelectorAll(W.n, Html, "iframe"), enabled,
                      trackingKeywords)
    ELSE LET node == Head(batch)
             src == W.n[node].src
             W1 == IF /\ W.n[node].kind = "script"
                      /\ enabled
                      /\ Truthy(src)
                      /\ someIncludes(trackingKeywords, src)
                   THEN remove(W, node)
                   ELSE W
             W2 == IF /\ W1.n[node].kind = "iframe"
                      /\ enabled
                      /\ Truthy(src)
                      /\ src # AboutBlank
                      /\ someIncludes(trackingKeywords, src)
                   THEN createContentPlaceholder(W1, node, src)
                   ELSE W1
         IN  observerCallbackSweeping(W2, Tail(batch), enabled,
                                      trackingKeywords)

\* the observer's callback without the flag test of line 222: the flag
\* holds back the removal of scripts only
RECURSIVE observerCallbackFlagOnScripts(_, _, _, _)
observerCallbackFlagOnScripts(W, batch, enabled, trackingKeywords) ==
    IF batch = <<>> \/ W.threw THEN W
    ELSE LET node == Head(batch)
             src == W.n[node].src
             W1 == IF /\ W.n[node].kind = "script"
                      /\ enabled
                      /\ Truthy(src)
                      /\ someIncludes(trackingKeywords, src)
                   THEN remove(W, node)
                   ELSE W
             W2 == IF /\ W1.n[node].kind = "iframe"
                      /\ Truthy(src)
                      /\ src # AboutBlank
                      /\ someIncludes(trackingKeywords, src)
                   THEN createContentPlaceholder(W1, node, src)
                   ELSE W1
         IN  observerCallbackFlagOnScripts(W2, Tail(batch), enabled,
                                           trackingKeywords)

\* the observer's callback without the flag tests of lines 210 and 222
RECURSIVE observerCallbackIgnoringFlag(_, _, _, _)
observerCallbackIgnoringFlag(W, batch, enabled, trackingKeywords) ==
    IF batch = <<>> \/ W.threw THEN W
    ELSE LET node == Head(batch)
             src == W.n[node].src
             W1 == IF /\ W.n[node].kind = "script"
                      /\ Truthy(src)
                      /\ someIncludes(trackingKeywords, src)
                   THEN remove(W, node)
                   ELSE W
             W2 == IF /\ W1.n[node].kind = "iframe"
                      /\ Truthy(src)
                      /\ src # AboutBlank
                      /\ someIncludes(trackingKeywords, src)
                   THEN createContentPlaceholder(W1, node, src)
                   ELSE W1
         IN  observerCallbackIgnoringFlag(W2, Tail(batch), enabled,
                                          trackingKeywords)

\* lines 203-232: the observer's callback on the added nodes of a batch;
\* an exception leaves the callback at once
RECURSIVE observerCallback(_, _, _, _)
observerCallback(W, batch, enabled, trackingKeywords) ==
    IF batch = <<>> \/ W.threw THEN W
    ELSE LET node == Head(batch)
             src == W.n[node].src
             W1 == IF /\ W.n[node].kind = "script"
                      /\ enabled
                      /\ Truthy(src)
                      /\ someIncludes(trackingKeywords, src)
                   THEN remove(W, node)
                   ELSE W
             W2 == IF /\ W1.n[node].kind = "iframe"
                      /\ enabled
                      /\ Truthy(src)
                      /\ src # AboutBlank
                      /\ someIncludes(trackingKeywords, src)
                   THEN createContentPlaceholder(W1, node, src)
                   ELSE W1
         IN  observerCallback(W2, Tail(batch), enabled, trackingKeywords)

\* blockTrackingScripts without the early return of lines 175-178
blockTrackingScriptsUnguarded(W, enabled, trackingKeywords) ==
    LET W1 == sweepScripts(W, querySelectorAll(W.n, Html, "script"),
                           trackingKeywords)
        W2 == sweepIframes(W1, querySelectorAll(W1.n, Html, "iframe"),
                           enabled, trackingKeywords)
    IN  IF W2.threw THEN W2
        ELSE [W2 EXCEPT !.obs =
                 Append(@, NewObserver(trackingKeywords, TRUE))]

\* lines 172-240
blockTrackingScripts(W, enabled, trackingKeywords) ==
    IF ~enabled
    THEN [W EXCEPT !.obs = Append(@, NewObserver(<<>>, FALSE))]
    ELSE LET W1 == sweepScripts(W, querySelectorAll(W.n, Html, "script"),
                                trackingKeywords)
             W2 == sweepIframes(W1, querySelectorAll(W1.n, Html, "iframe"),
                                enabled, trackingKeywords)
         IN  IF W2.threw THEN W2
             ELSE [W2 EXCEPT !.obs =
                      Append(@, NewObserver(trackingKeywords, TRUE))]

\* the platform's "notify mutation observers": each observer with queued
\* records, in creation order, gets them all in one callback; what a
\* callback throws is reported and ends that callback only
RECURSIVE notifyFrom(_, _, _)
notifyFrom(W, i, enabled) ==
    IF i > Len(W.obs) THEN W
    ELSE IF W.obs[i].queue = <<>> THEN notifyFrom(W, i + 1, enabled)
    ELSE LET batch == W.obs[i].queue
             W1 == [W EXCEPT !.obs[i].queue = <<>>]
             W2 == IF W.obs[i].noop THEN W1
                   ELSE observerCallback(W1, batch, enabled, W.obs[i].kw)
         IN  notifyFrom([W2 EXCEPT !.threw = FALSE,
                                   !.reported = @ \/ W2.threw],
                        i + 1, enabled)

Pending(W) == \E i \in 1..Len(W.obs) : W.obs[i].queue # <<>>

\* a microtask checkpoint: observers are notified until no record is queued
RECURSIVE notifyMutationObservers(_, _)
notifyMutationObservers(W, enabled) ==
    IF ~Pending(W) THEN W
    ELSE notifyMutationObservers(notifyFrom(W, 1, enabled), enabled)

(* --------------------------- visibility enforcer ---------------------- *)
\* lines 266-268: the wrapper's serialised content holds "Content Blocked"
hasContent(n, wrapper) ==
    \/ n[wrapper].content # 0
    \/ \E d \in Range(Descendants(n, wrapper)) : n[d].content # 0

\* reassertIframe without the src test and assignment of lines 296-301 and
\* 320-325
reassertIframeKeepingSrc(W, iframe) == positionIframeAbsolutely(W, iframe)

\* lines 291-305 and 315-326: what is re-asserted on the wrapper's iframe
reassertIframe(W, iframe) ==
    LET W1 == positionIframeAbsolutely(W, iframe)
    IN  IF /\ srcProperty(W1.n[iframe].src) # AboutBlank
           /\ W1.n[iframe].os # NoAttr
        THEN [W1 EXCEPT !.n[iframe].src = AboutBlank]
        ELSE W1

\* lines 271-309: the wrapper's markup is rebuilt
rebuildContent(W, wrapper, placeholder) ==
    LET fresh == W.n[placeholder].id = 0
        placeholderId == IF fresh THEN W.next ELSE W.n[placeholder].id
        W1 == IF fresh THEN [W EXCEPT !.next = @ + 1] ELSE W
        W2 == setInnerHTML(W1, wrapper, placeholderId)
        W3 == appendChild(W2, wrapper, placeholder)
        iframe == querySelector(W3.n, wrapper, "iframe")
        W4 == IF iframe # NoNode
              THEN appendChild(reassertIframe(W3, iframe), wrapper, iframe)
              ELSE W3
    IN  addSettingsButtonListeners(W4, placeholderId)

\* ensureOne with the call of line 308 moved out of the test of line 271:
\* the settings button gets its handlers on every pass
ensureOneAlwaysListening(W, placeholder) ==
    LET W1 == [W EXCEPT !.n[placeholder].style =
                  [@ EXCEPT !.display = "flex", !.visibility = "visible",
                            !.opacity = "1", !.zIndex = "100"]]
        wrapper == parentElement(W1.n, placeholder)
        W2 == applyWrapperStyles(W1, wrapper, "100%", "315px")
        W3 == IF hasContent(W2.n, wrapper)
              THEN addSettingsButtonListeners(W2, W2.n[placeholder].id)
              ELSE rebuildContent(W2, wrapper, placeholder)
        iframe == querySelector(W3.n, wrapper, "iframe")
    IN  IF wrapper = NoNode THEN W1
        ELSE IF iframe # NoNode THEN reassertIframe(W3, iframe)
        ELSE W3

\* lines 251-328: one placeholder of the list
ensureOne(W, placeholder) ==
    LET W1 == [W EXCEPT !.n[placeholder].style =
                  [@ EXCEPT !.display = "flex", !.visibility = "visible",
                            !.opacity = "1", !.zIndex = "100"]]
        wrapper == parentElement(W1.n, placeholder)
        W2 == applyWrapperStyles(W1, wrapper, "100%", "315px")
        W3 == IF hasContent(W2.n, wrapper) THEN W2
              ELSE rebuildContent(W2, wrapper, placeholder)
        iframe == querySelector(W3.n, wrapper, "iframe")
    IN  IF wrapper = NoNode THEN W1
        ELSE IF iframe # NoNode THEN reassertIframe(W3, iframe)
        ELSE W3

RECURSIVE ensureEach(_, _)
ensureEach(W, list) ==
    IF list = <<>> THEN W
    ELSE ensureEach(ensureOne(W, Head(list)), Tail(list))

\* lines 245-331
ensurePlaceholdersVisible(W) ==
    ensureEach(W, querySelectorAll(W.n, Html, "marker"))

(* -------------------------------- restorer ---------------------------- *)
\* restoreIframe without the src assignment of lines 356 and 406
restoreIframeKeepingBlank(W, iframe, originalSrc) ==
    [W EXCEPT !.n[iframe].cb = NoAttr,
              !.n[iframe].os = NoAttr,
              !.n[iframe].style =
                  [@ EXCEPT !.position = "", !.top = "", !.left = "",
                            !.width = "", !.height = "", !.opacity = "",
                            !.pointerEvents = "", !.visibility = "",
                            !.zIndex = ""]]

\* restoreIframe without the removeAttribute("data-cookie-blocked") of
\* lines 357 and 407
restoreIframeKeepingMarker(W, iframe, originalSrc) ==
    [W EXCEPT !.n[iframe].src = originalSrc,
              !.n[iframe].os = NoAttr,
              !.n[iframe].style =
                  [@ EXCEPT !.position = "", !.top = "", !.left = "",
                            !.width = "", !.height = "", !.opacity = "",
                            !.pointerEvents = "", !.visibility = "",
                            !.zIndex = ""]]

\* restoreIframe without the removeAttribute calls of lines 357-358 and
\* 407-408
restoreIframeKeepingAttributes(W, iframe, originalSrc) ==
    [W EXCEPT !.n[iframe].src = originalSrc,
              !.n[iframe].style =
                  [@ EXCEPT !.position = "", !.top = "", !.left = "",
                            !.width = "", !.height = "", !.opacity = "",
                            !.pointerEvents = "", !.visibility = "",
                            !.zIndex = ""]]

\* lines 356-369 and 406-417: src and attributes restored, styles reset
restoreIframe(W, iframe, originalSrc) ==
    [W EXCEPT !.n[iframe].src = originalSrc,
              !.n[iframe].cb = NoAttr,
              !.n[iframe].os = NoAttr,
              !.n[iframe].style =
                  [@ EXCEPT !.position = "", !.top = "", !.left = "",
                            !.width = "", !.height = "", !.opacity = "",
                            !.pointerEvents = "", !.visibility = "",
                            !.zIndex = ""]]

\* unwrap by appendChild and remove: the iframe goes to the end of the
\* wrapper's parent, not to the wrapper's place
unwrapAppending(W, iframe, wrapper) ==
    IF wrapper # NoNode /\ parentElement(W.n, wrapper) # NoNode
    THEN remove(appendChild(W, parentElement(W.n, wrapper), iframe),
                wrapper)
    ELSE W

\* lines 372-377 and 419-423: the wrapper gives its place to the iframe
unwrap(W, iframe, wrapper) ==
    IF wrapper # NoNode /\ parentElement(W.n, wrapper) # NoNode
    THEN replaceChild(W, parentElement(W.n, wrapper), iframe, wrapper)
    ELSE W

\* lines 345-379: one iframe of the primary pass
restoreOne(W, iframe, currentBlockedKeywords) ==
    LET originalSrc == W.n[iframe].os
        stillBlocked == someIncludes(currentBlockedKeywords, originalSrc)
        W1 == restoreIframe(W, iframe, originalSrc)
    IN  IF ~Truthy(originalSrc) THEN W
        ELSE IF stillBlocked THEN W
        ELSE unwrap(W1, iframe, parentElement(W1.n, iframe))

RECURSIVE primaryPass(_, _, _)
primaryPass(W, list, currentBlockedKeywords) ==
    IF list = <<>> THEN W
    ELSE primaryPass(restoreOne(W, Head(list), currentBlockedKeywords),
                     Tail(list), currentBlockedKeywords)

\* safetyOne resolving the URL from the marker before the iframe: the
\* operands of line 396 swapped
safetyOnePreferringMarker(W, placeholder, currentBlockedKeywords) ==
    LET wrapper == parentElement(W.n, placeholder)
        iframe == querySelector(W.n, wrapper, "iframe")
        blockedSrc == W.n[placeholder].bsrc
        originalSrc == IF Truthy(blockedSrc) \/ iframe = NoNode
                       THEN blockedSrc
                       ELSE W.n[iframe].os
        stillBlocked == someIncludes(currentBlockedKeywords, originalSrc)
    IN  IF wrapper = NoNode THEN W
        ELSE IF ~Truthy(originalSrc) THEN W
        ELSE IF stillBlocked THEN W
        ELSE IF iframe # NoNode
        THEN unwrap(restoreIframe(W, iframe, originalSrc), iframe, wrapper)
        ELSE remove(W, wrapper)

\* safetyOne without the else branch of lines 424-429: a wrapper that holds
\* no iframe is left where it is
safetyOneLeavingOrphan(W, placeholder, currentBlockedKeywords) ==
    LET wrapper == parentElement(W.n, placeholder)
        iframe == querySelector(W.n, wrapper, "iframe")
        blockedSrc == W.n[placeholder].bsrc
        originalSrc == IF iframe # NoNode /\ Truthy(W.n[iframe].os)
                       THEN W.n[iframe].os
                       ELSE blockedSrc
        stillBlocked == someIncludes(currentBlockedKeywords, originalSrc)
    IN  IF wrapper = NoNode THEN W
        ELSE IF ~Truthy(originalSrc) THEN W
        ELSE IF stillBlocked THEN W
        ELSE IF iframe # NoNode
        THEN unwrap(restoreIframe(W, iframe, originalSrc), iframe, wrapper)
        ELSE W

\* safetyOne without the test of line 403
safetyOneRegardless(W, placeholder, currentBlockedKeywords) ==
    LET wrapper == parentElement(W.n, placeholder)
        iframe == querySelector(W.n, wrapper, "iframe")
        blockedSrc == W.n[placeholder].bsrc
        originalSrc == IF iframe # NoNode /\ Truthy(W.n[iframe].os)
                       THEN W.n[iframe].os
                       ELSE blockedSrc
    IN  IF wrapper = NoNode THEN W
        ELSE IF ~Truthy(originalSrc) THEN W
        ELSE IF iframe # NoNode
        THEN unwrap(restoreIframe(W, iframe, originalSrc), iframe, wrapper)
        ELSE remove(W, wrapper)

\* lines 387-430: one placeholder of the safety pass
safetyOne(W, placeholder, currentBlockedKeywords) ==
    LET wrapper == parentElement(W.n, placeholder)
        iframe == querySelector(W.n, wrapper, "iframe")
        blockedSrc == W.n[placeholder].bsrc
        originalSrc == IF iframe # NoNode /\ Truthy(W.n[iframe].os)
                       THEN W.n[iframe].os
                       ELSE blockedSrc
        stillBlocked == someIncludes(currentBlockedKeywords, originalSrc)
    IN  IF wrapper = NoNode THEN W
        ELSE IF ~Truthy(originalSrc) THEN W
        ELSE IF stillBlocked THEN W
        ELSE IF iframe # NoNode
        THEN unwrap(restoreIframe(W, iframe, originalSrc), iframe, wrapper)
        ELSE remove(W, wrapper)

RECURSIVE safetyPass(_, _, _)
safetyPass(W, list, currentBlockedKeywords) ==
    IF list = <<>> THEN W
    ELSE safetyPass(safetyOne(W, Head(list), currentBlockedKeywords),
                    Tail(list), currentBlockedKeywords)

\* 'iframe[data-cookie-blocked="true"][data-original-src]' in the document
blockedIframes(n) ==
    LET sel(x) == n[x].kind = "iframe" /\ n[x].cb = AttrTrue
                  /\ n[x].os # NoAttr
    IN  SelectSeq(Descendants(n, Html), sel)

\* lines 337-431
unblockPreviouslyBlockedContent(W, currentBlockedKeywords) ==
    LET W1 == primaryPass(W, blockedIframes(W.n), currentBlockedKeywords)
    IN  safetyPass(W1, querySelectorAll(W1.n, Html, "marker"),
                   currentBlockedKeywords)

(* --------------------------- the consent banner ----------------------- *)
\* CookieConsenter.tsx, lines 209-264.  The component's state after its
\* first render and mount effect (lines 209-218): the 50 ms timer that ends
\* the entrance is set.  timers holds the pending timeouts in the order in
\* which they fall due: the entrance timer is due before any 500 ms timer,
\* and 500 ms timers fall due in the order in which they were set.  invoked
\* lists the host callbacks the exit path has called, opened counts the
\* onManage calls of the manage button, clicks counts the clicks.
InitialConsenter ==
    [isExiting |-> FALSE, isEntering |-> TRUE, shouldRender |-> TRUE,
     timers |-> <<"setIsEntering">>, invoked |-> <<>>, opened |-> 0,
     clicks |-> 0]

\* setTimeout(<what>, ...)
setTimeoutOf(c, what) == [c EXCEPT !.timers = Append(@, what)]

\* lines 220-227: the effect on isExiting, run after the render in which
\* isExiting has changed
exitEffect(c, wasExiting) ==
    IF c.isExiting /\ ~wasExiting THEN setTimeoutOf(c, "setShouldRender")
    ELSE c

\* lines 229-235
handleAcceptClick(c) ==
    exitEffect(setTimeoutOf([c EXCEPT !.isExiting = TRUE], "onAccept"),
               c.isExiting)

\* lines 237-243
handleDeclineClick(c) ==
    exitEffect(setTimeoutOf([c EXCEPT !.isExiting = TRUE], "onDecline"),
               c.isExiting)

\* lines 245-248
handleManageClick(c) == [c EXCEPT !.opened = @ + 1]

\* lines 250-257 and 259-264: both call onManage once their timer is due
handleSavePreferences(c) ==
    exitEffect(setTimeoutOf([c EXCEPT !.isExiting = TRUE], "onManage"),
               c.isExiting)

handleCancelManage(c) == handleSavePreferences(c)

\* the timeout that is due first runs
runTimeout(c) ==
    LET what == Head(c.timers)
        c1 == [c EXCEPT !.timers = Tail(@)]
    IN  IF what = "setIsEntering" THEN [c1 EXCEPT !.isEntering = FALSE]
        ELSE IF what = "setShouldRender"
        THEN [c1 EXCEPT !.shouldRender = FALSE]
        ELSE [c1 EXCEPT !.invoked = Append(@, what)]

\* line 266: the buttons are rendered, whatever isExiting is
ButtonsRendered(c) == c.shouldRender

(* ------------------------------- the page ----------------------------- *)
\* the elements the host page owns: a div, two iframes and a script, not
\* yet in the document
InitialNodes ==
    (Html :> [NewNode("html") EXCEPT !.kids = <<Body>>])
 @@ (Body :> NewNode("body"))
 @@ (Div :> NewNode("div"))
 @@ (Frame1 :> [NewNode("iframe") EXCEPT
                  !.src = UrlT,
                  !.style = [NoStyle EXCEPT !.width = "560px",
                                            !.height = "200px"]])
 @@ (Frame2 :> [NewNode("iframe") EXCEPT !.src = UrlRel])
 @@ (Script1 :> [NewNode("script") EXCEPT !.src = UrlS])

FirstId == Script1 + 1
IdLimit == FirstId + 2 * MaxBlocks

Init ==
    /\ blockingEnabled = TRUE
    /\ nodes = InitialNodes
    /\ nextId = FirstId
    /\ observers = <<>>
    /\ interfered = 0
    /\ uncaught = FALSE
    /\ consenter = InitialConsenter

\* the bounds of a behaviour
Within(W) ==
    /\ W.next <= IdLimit
    /\ \A i \in 1..Len(W.obs) : Len(W.obs[i].queue) <= MaxQueue

\* A tree that holds neither the document nor an element of the host page
\* is out of every later operation's reach.  Its nodes are dropped and the
\* wrappers and markers that remain are renumbered in the order of their
\* ids (a node id, like the random placeholder id, only tells nodes apart).
Unreachable(n) ==
    LET Tree(top) == {top} \cup Range(Descendants(n, top))
        tops == {x \in DOMAIN n : x >= FirstId /\ parentElement(n, x) = NoNode}
    IN  UNION {Tree(t) : t \in {t \in tops :
                    Tree(t) \cap ({Html, Body} \cup HostNodes) = {}}}

Compacted(W) ==
    LET lost == Unreachable(W.n)
        kept == {x \in DOMAIN W.n : x >= FirstId /\ x \notin lost}
        NewId(x) == IF x < FirstId THEN x
                    ELSE FirstId + Cardinality({y \in kept : y < x})
        OldId(k) == CHOOSE x \in DOMAIN W.n \ lost : NewId(x) = k
        Renamed(r) ==
            [r EXCEPT !.kids = [i \in DOMAIN @ |-> NewId(@[i])],
                      !.id = IF @ = 0 THEN 0 ELSE NewId(@),
                      !.content = IF @ = 0 THEN 0 ELSE NewId(@)]
    IN  IF lost = {} THEN W
        ELSE [W EXCEPT
                !.n = [k \in 1..(FirstId - 1 + Cardinality(kept)) |->
                          Renamed(W.n[OldId(k)])],
                !.next = FirstId + Cardinality(kept)]

Install(W) ==
    LET C == Compacted(W)
    IN  /\ nodes' = C.n
        /\ nextId' = C.next
        /\ observers' = C.obs
        /\ uncaught' = C.reported

(* ------------------------------- operations --------------------------- *)
\* lines 11-13
SetBlockingEnabled(enabled) ==
    /\ blockingEnabled # enabled
    /\ blockingEnabled' = enabled
    /\ uncaught' = FALSE
    /\ UNCHANGED <<nodes, nextId, observers, interfered, consenter>>

BlockTrackingScripts(K) ==
    LET W == blockTrackingScripts(World, blockingEnabled, K)
    IN  /\ Len(observers) < MaxObservers
        /\ Within(W)
        /\ Install(W)
        /\ UNCHANGED <<blockingEnabled, interfered, consenter>>

MutationCallbackTurn ==
    LET W == notifyMutationObservers(World, blockingEnabled)
    IN  /\ Pending(World)
        /\ W.next <= IdLimit
        /\ Install(W)
        /\ UNCHANGED <<blockingEnabled, interfered, consenter>>

\* observer.disconnect() by the host: the observer is never notified again
Disconnect(i) ==
    /\ observers' = [j \in 1..(Len(observers) - 1) |->
                        IF j < i THEN observers[j] ELSE observers[j + 1]]
    /\ uncaught' = FALSE
    /\ UNCHANGED <<blockingEnabled, nodes, nextId, interfered, consenter>>

EnsurePlaceholdersVisible ==
    LET W == ensurePlaceholdersVisible(World)
    IN  /\ Within(W)
        /\ Install(W)
        /\ UNCHANGED <<blockingEnabled, interfered, consenter>>

UnblockPreviouslyBlockedContent(K) ==
    LET W == unblockPreviouslyBlockedContent(World, K)
    IN  /\ Within(W)
        /\ Install(W)
        /\ UNCHANGED <<blockingEnabled, interfered, consenter>>

\* the place of a child in the host page's layout: the div, the first
\* iframe, the second iframe, the script; a wrapper stands where the
\* iframe it holds stood
Slot(n, k) ==
    LET held == LET host(y) == y \in HostNodes
                IN  SelectSeq(<<k>> \o Descendants(n, k), host)
    IN  IF held = <<>> THEN NoNode ELSE Head(held)

\* parent.insertBefore(x, <the first child of a later slot>), or
\* parent.appendChild(x) when there is none
insertAtSlot(W, p, x) ==
    LET later(k) == Slot(W.n, k) > x
        after == SelectSeq(W.n[p].kids, later)
    IN  IF after = <<>> THEN appendChild(W, p, x)
        ELSE insertBefore(W, p, x, Head(after))

\* the host puts one of its elements into the body, or the first iframe
\* into its div before the div is in the document
HostInsert(x, p) ==
    LET W == insertAtSlot(World, p, x)
    IN  /\ parentElement(nodes, x) = NoNode
        /\ p = Div => x = Frame1 /\ parentElement(nodes, Div) = NoNode
        /\ Within(W)
        /\ Install(W)
        /\ UNCHANGED <<blockingEnabled, interfered, consenter>>

\* the host removes one of its elements from where it put it
HostRemove(x) ==
    /\ x = Frame1
    /\ parentElement(nodes, x) # NoNode
    /\ nodes[parentElement(nodes, x)].kind # "wrapper"
    /\ Install(remove(World, x))
    /\ UNCHANGED <<blockingEnabled, interfered, consenter>>

\* what the core does
Core ==
    \/ \E K \in KeywordLists \ {<<>>} : BlockTrackingScripts(K)
    \/ MutationCallbackTurn
    \/ EnsurePlaceholdersVisible
    \/ \E K \in KeywordLists : UnblockPreviouslyBlockedContent(K)

\* what the host page does
Host ==
    \/ \E e \in BOOLEAN : SetBlockingEnabled(e)
    \/ \E i \in 1..Len(observers) : Disconnect(i)
    \/ \E x \in HostNodes, p \in {Body, Div} : HostInsert(x, p)
    \/ HostRemove(Frame1)

Next == Core \/ Host

Spec == Init /\ [][Next]_vars

(* ----------------- other code interfering with blocked content -------- *)
\* Other code touches the first iframe, or a wrapper around it, while no
\* mutation record is waiting.

\* a wrapper's markup is stripped (an external re-render)
StripContent(w) ==
    /\ nodes[w].kind = "wrapper"
    /\ nodes[w].content # 0
    /\ Has(Descendants(nodes, w), Frame1)
    /\ nodes' = [nodes EXCEPT ![w].content = 0, ![w].listeners = 0]
    /\ UNCHANGED <<nextId, observers>>
    /\ uncaught' = FALSE

\* the blocked iframe's src attribute is set back to what the host gave it
ResetSrc ==
    /\ nodes[Frame1].src = AboutBlank
    /\ nodes' = [nodes EXCEPT ![Frame1].src = InitialNodes[Frame1].src]
    /\ UNCHANGED <<nextId, observers>>
    /\ uncaught' = FALSE

\* the blocked iframe loses data-cookie-blocked and data-original-src
StripAttributes ==
    /\ nodes[Frame1].cb # NoAttr
    /\ nodes' = [nodes EXCEPT ![Frame1].cb = NoAttr, ![Frame1].os = NoAttr]
    /\ UNCHANGED <<nextId, observers>>
    /\ uncaught' = FALSE

\* the blocked iframe is taken out of its wrapper, and away (p = NoNode)
\* or into the body
TakeOut(p) ==
    /\ parentElement(nodes, Frame1) # NoNode
    /\ nodes[parentElement(nodes, Frame1)].kind = "wrapper"
    /\ LET W == IF p = NoNode THEN remove(World, Frame1)
                ELSE insertAtSlot(World, p, Frame1)
       IN  Within(W) /\ Install(W)

Interfere ==
    /\ interfered < MaxInterference
    /\ ~Pending(World)
    /\ interfered' = interfered + 1
    /\ UNCHANGED <<blockingEnabled, consenter>>
    /\ \/ \E w \in DOMAIN nodes : StripContent(w)
       \/ ResetSrc
       \/ StripAttributes
       \/ \E p \in {NoNode, Body} : TakeOut(p)

\* the host page is at rest once other code has interfered
NextExt == Core \/ (interfered = 0 /\ Host) \/ Interfere

SpecExt == Init /\ [][NextExt]_vars

(* ----------------------- several watchers at once --------------------- *)
\* a keyword list with a keyword that the neutral URL contains
KA == << <<"about:blank">>, <<"trk">> >>
WatcherLists == (KeywordLists \ {<<>>}) \cup {KA}

\* blockTrackingScripts called while earlier observers are still connected
StartWatcher(K) ==
    LET W == blockTrackingScripts(World, blockingEnabled, K)
    IN  /\ Len(observers) < MaxWatchers
        /\ Within(W)
        /\ Install(W)
        /\ UNCHANGED <<blockingEnabled, interfered, consenter>>

\* blockTrackingScripts calls, callback turns and restorer calls on a page
\* whose host inserts its elements and removes the first iframe
NextWatchers ==
    \/ \E K \in WatcherLists : StartWatcher(K)
    \/ MutationCallbackTurn
    \/ \E K \in KeywordLists : UnblockPreviouslyBlockedContent(K)
    \/ \E x \in HostNodes, p \in {Body, Div} : HostInsert(x, p)
    \/ HostRemove(Frame1)

SpecWatchers == Init /\ [][NextWatchers]_vars

(* ---------------------- the consent banner's events ------------------- *)
\* a click on the rendered accept button
ClickAccept ==
    /\ ButtonsRendered(consenter)
    /\ consenter.clicks < MaxClicks
    /\ consenter' = [handleAcceptClick(consenter) EXCEPT !.clicks = @ + 1]
    /\ UNCHANGED <<blockingEnabled, nodes, nextId, observers, interfered,
                   uncaught>>

\* a click on the rendered decline button
ClickDecline ==
    /\ ButtonsRendered(consenter)
    /\ consenter.clicks < MaxClicks
    /\ consenter' = [handleDeclineClick(consenter) EXCEPT !.clicks = @ + 1]
    /\ UNCHANGED <<blockingEnabled, nodes, nextId, observers, interfered,
                   uncaught>>

\* a click on the rendered manage button
ClickManage ==
    /\ ButtonsRendered(consenter)
    /\ consenter.clicks < MaxClicks
    /\ consenter' = [handleManageClick(consenter) EXCEPT !.clicks = @ + 1]
    /\ UNCHANGED <<blockingEnabled, nodes, nextId, observers, interfered,
                   uncaught>>

\* the timer loop runs the timeout that is due
TimeoutDue ==
    /\ consenter.timers # <<>>
    /\ consenter' = runTimeout(consenter)
    /\ UNCHANGED <<blockingEnabled, nodes, nextId, observers, interfered,
                   uncaught>>

NextConsenter == ClickAccept \/ ClickDecline \/ ClickManage \/ TimeoutDue

SpecConsenter == Init /\ [][NextConsenter]_vars

(* ------------------------------ properties ---------------------------- *)
\* the iframes of the document
Iframes(n) == Range(querySelectorAll(n, Html, "iframe"))

\* C1 (immediate sweep).  When blockTrackingScripts(K) returns with blocking
\* enabled, every iframe that was in the document with a non-empty src
\* (the src property the sweep reads) other than about:blank that contains
\* a keyword of K has src about:blank, data-cookie-blocked "true" and
\* data-original-src equal to the src it had before the call.
C1_ImmediateSweep ==
    blockingEnabled =>
        \A K \in KeywordLists :
            LET R == blockTrackingScripts(World, blockingEnabled, K)
            IN  /\ ~R.threw
                /\ \A f \in Iframes(nodes) :
                       LET src == srcProperty(nodes[f].src)
                       IN  /\ Truthy(src)
                           /\ src # AboutBlank
                           /\ someIncludes(K, src)
                           => /\ R.n[f].src = AboutBlank
                              /\ R.n[f].cb = AttrTrue
                              /\ R.n[f].os = src

\* the second iframe, whose src attribute is relative, stands blocked in
\* the document with its resolved URL recorded: only the sweep records that
C1_Witness ==
    /\ InDocument(nodes, Frame2)
    /\ nodes[Frame2].src = AboutBlank
    /\ nodes[Frame2].cb = AttrTrue
    /\ nodes[Frame2].os = PageBase \o UrlRel

\* C2 (late insertion).  With blocking enabled and a watcher started by
\* blockTrackingScripts(K) still connected, an iframe inserted into the
\* document with a src attribute that is non-empty, not about:blank and
\* contains a keyword of K is blocked (src about:blank, blocked marker set,
\* original URL recorded, wrapped) by the end of the mutation-callback turn
\* that delivers its insertion.
C2_LateInsertion ==
    blockingEnabled /\ Pending(World) =>
        LET R == notifyMutationObservers(World, blockingEnabled)
        IN  \A i \in 1..Len(observers) :
            \A j \in 1..Len(observers[i].queue) :
                LET f == observers[i].queue[j]
                    src == nodes[f].src
                IN  /\ observers[i].observing
                    /\ nodes[f].kind = "iframe"
                    /\ InDocument(nodes, f)
                    /\ Truthy(src)
                    /\ src # AboutBlank
                    /\ someIncludes(observers[i].kw, src)
                    => /\ R.n[f].src = AboutBlank
                       /\ R.n[f].cb = AttrTrue
                       /\ R.n[f].os = src
                       /\ parentElement(R.n, f) # NoNode
                       /\ R.n[parentElement(R.n, f)].kind = "wrapper"

\* the markers of the document
Markers(n) == Range(querySelectorAll(n, Html, "marker"))

\* C3 (symmetric restore).  For every iframe blocked with recorded
\* original URL U, if no keyword of the list passed to
\* unblockPreviouslyBlockedContent is a substring of U, then after the call
\* the iframe's src is U, it carries neither data-cookie-blocked nor
\* data-original-src, it sits in its wrapper's former position among the
\* wrapper's former siblings (a sibling wrapper restored by the same call
\* having given its place to its own iframe), and the wrapper and its
\* marker are no longer in the document.
C3_SymmetricRestore ==
    \A K \in KeywordLists :
        LET R == unblockPreviouslyBlockedContent(World, K)
        IN  \A f \in Range(blockedIframes(nodes)) :
                LET U == nodes[f].os
                    wrapper == parentElement(nodes, f)
                    place == parentElement(nodes, wrapper)
                    before == nodes[place].kids
                    after == R.n[place].kids
                IN  /\ Truthy(U)
                    /\ ~someIncludes(K, U)
                    /\ nodes[wrapper].kind = "wrapper"
                    => /\ R.n[f].src = U
                       /\ R.n[f].cb = NoAttr
                       /\ R.n[f].os = NoAttr
                       /\ Len(after) = Len(before)
                       /\ \A i \in DOMAIN before :
                            \/ after[i] = before[i] /\ before[i] # wrapper
                            \/ /\ nodes[before[i]].kind = "wrapper"
                               /\ parentElement(nodes, after[i]) = before[i]
                               /\ before[i] = wrapper <=> after[i] = f
                       /\ ~InDocument(R.n, wrapper)
                       /\ \A m \in Range(nodes[wrapper].kids) :
                            nodes[m].kind = "marker" => ~InDocument(R.n, m)

\* the first iframe is back in the body before the second iframe, with the
\* URL the host gave it, no attribute of the core and the styles the
\* restorer resets, and no marker is in the document
C3_Witness ==
    /\ parentElement(nodes, Frame1) = Body
    /\ nodes[Body].kids = <<Frame1, Frame2>>
    /\ nodes[Frame1].src = UrlT
    /\ nodes[Frame1].cb = NoAttr
    /\ nodes[Frame1].os = NoAttr
    /\ nodes[Frame1].style = NoStyle
    /\ Markers(nodes) = {}

\* C4 (restore idempotence).  For every document state and keyword list K,
\* calling unblockPreviouslyBlockedContent(K) twice in succession leaves the
\* document after the second call identical to the document after the
\* first.
C4_RestoreIdempotence ==
    \A K \in KeywordLists :
        LET R1 == unblockPreviouslyBlockedContent(World, K)
            R2 == unblockPreviouslyBlockedContent(R1, K)
        IN  R2.n = R1.n

\* the second iframe stands restored in the document, with the resolved
\* URL the sweep recorded for it, while the first one is still wrapped
C4_Witness ==
    /\ InDocument(nodes, Frame2)
    /\ nodes[Frame2].src = PageBase \o UrlRel
    /\ nodes[Frame2].cb = NoAttr
    /\ InDocument(nodes, Frame1)
    /\ nodes[Frame1].cb = AttrTrue
    /\ nodes[parentElement(nodes, Frame1)].kind = "wrapper"

\* C5 (disabled flag).  If blocking is disabled when blockTrackingScripts
\* is called, the call removes no script, wraps no iframe and changes
\* nothing else in the document, and the observer it returns never gets a
\* record to act on, whatever is inserted later.
C5_DisabledFlag ==
    /\ ~blockingEnabled =>
          \A K \in KeywordLists :
              LET R == blockTrackingScripts(World, blockingEnabled, K)
              IN  /\ R.n = nodes
                  /\ R.next = nextId
                  /\ Len(R.obs) = Len(observers) + 1
                  /\ R.obs[Len(R.obs)].noop
                  /\ ~R.obs[Len(R.obs)].observing
    /\ \A i \in 1..Len(observers) :
          observers[i].noop =>
              /\ ~observers[i].observing
              /\ observers[i].queue = <<>>

\* the observer of a call made while blocking was disabled is there,
\* blocking is enabled again, and the script and the first iframe, both
\* matching every keyword list, are in the document untouched
C5_Witness ==
    /\ \E i \in 1..Len(observers) : observers[i].noop
    /\ blockingEnabled
    /\ InDocument(nodes, Script1)
    /\ InDocument(nodes, Frame1)
    /\ nodes[Frame1] = InitialNodes[Frame1]

\* C6 (idempotent enforcement).  For every document state, calling
\* ensurePlaceholdersVisible twice in succession leaves the document after
\* the second call identical to the document after the first: no wrapper
\* gains markup, markers or settings-button handlers on the second call.
C6_IdempotentEnforcement ==
    LET R1 == ensurePlaceholdersVisible(World)
        R2 == ensurePlaceholdersVisible(R1)
    IN  /\ R2.n = R1.n
        /\ R2.next = R1.next

\* other code has interfered, and a wrapper in the document has its markup,
\* one handler on its settings button, a marker the enforcer made visible
\* and no iframe
C6_Witness ==
    /\ interfered > 0
    /\ \E m \in Markers(nodes) :
          LET wrapper == parentElement(nodes, m)
          IN  /\ nodes[m].style.display = "flex"
              /\ nodes[wrapper].content # 0
              /\ nodes[wrapper].listeners = 1
              /\ nodes[wrapper].kids = <<m>>

\* C8 (lossless round trip).  Blocking an iframe and then calling
\* unblockPreviouslyBlockedContent with a keyword list that matches none
\* of its original URL returns the document to its pre-block state: same
\* parent and sibling position, same src, same attributes and the same
\* inline styles on the iframe, and no wrapper or marker left behind.
C8_LosslessRoundTrip ==
    blockingEnabled =>
        \A K1 \in KeywordLists, K2 \in KeywordLists :
            LET R1 == blockTrackingScripts(World, blockingEnabled, K1)
                R2 == unblockPreviouslyBlockedContent(R1, K2)
            IN  \A f \in Iframes(nodes) :
                    LET src == srcProperty(nodes[f].src)
                        parent == parentElement(nodes, f)
                    IN  /\ nodes[f].cb = NoAttr
                        /\ Truthy(src)
                        /\ src # AboutBlank
                        /\ someIncludes(K1, src)
                        /\ ~someIncludes(K2, src)
                        => /\ parentElement(R2.n, f) = parent
                           /\ IndexOf(R2.n[parent].kids, f) =
                                  IndexOf(nodes[parent].kids, f)
                           /\ srcProperty(R2.n[f].src) = src
                           /\ R2.n[f].cb = nodes[f].cb
                           /\ R2.n[f].os = nodes[f].os
                           /\ R2.n[f].style = nodes[f].style
                           /\ ~InDocument(R2.n, parentElement(R1.n, f))

\* C9 (restore keeps what is still blocked).  For every blocked iframe
\* whose recorded original URL contains a keyword of the list passed to
\* unblockPreviouslyBlockedContent, the call leaves the iframe's src at
\* about:blank, its blocked marker and recorded URL in place, and its
\* wrapper and placeholder marker in the document, unchanged.
C9_RestoreKeepsStillBlocked ==
    \A K \in KeywordLists :
        LET R == unblockPreviouslyBlockedContent(World, K)
        IN  \A f \in Range(blockedIframes(nodes)) :
                LET wrapper == parentElement(nodes, f)
                IN  someIncludes(K, nodes[f].os)
                    => /\ nodes[f].src = AboutBlank
                       /\ R.n[f] = nodes[f]
                       /\ nodes[wrapper].kind = "wrapper"
                       /\ InDocument(R.n, wrapper)
                       /\ R.n[wrapper] = nodes[wrapper]
                       /\ \E m \in Range(nodes[wrapper].kids) :
                            nodes[m].kind = "marker"
                       /\ \A m \in Range(nodes[wrapper].kids) :
                            R.n[m] = nodes[m]

\* the first iframe stands restored in the body while the second one,
\* which a keyword still matches, is blocked in its wrapper
C9_Witness ==
    /\ parentElement(nodes, Frame1) = Body
    /\ nodes[Frame1].cb = NoAttr
    /\ nodes[Frame1].style = NoStyle
    /\ InDocument(nodes, Frame2)
    /\ nodes[Frame2].cb = AttrTrue
    /\ nodes[Frame2].src = AboutBlank
    /\ nodes[parentElement(nodes, Frame2)].kind = "wrapper"

\* C7 (layout non-disruption).  After createContentPlaceholder blocks an
\* iframe, the wrapper is a child of the iframe's former parent at the
\* iframe's former position among its siblings, the wrapper's width and
\* height are the iframe's inline width and height at block time (100% and
\* 315px when unset), and the iframe is a child of the wrapper, positioned
\* absolutely at 1px by 1px with zero opacity and hidden visibility.
C7_LayoutNonDisruption ==
    \A f \in {x \in DOMAIN nodes : nodes[x].kind = "iframe"} :
        LET parent == parentElement(nodes, f)
            R == createContentPlaceholder(World, f, srcProperty(nodes[f].src))
            wrapper == parentElement(R.n, f)
        IN  parent # NoNode
            => /\ ~R.threw
               /\ wrapper \notin DOMAIN nodes
               /\ R.n[wrapper].kind = "wrapper"
               /\ R.n[parent].kids =
                      [i \in DOMAIN nodes[parent].kids |->
                          IF nodes[parent].kids[i] = f THEN wrapper
                          ELSE nodes[parent].kids[i]]
               /\ R.n[wrapper].style.width =
                      OrElse(nodes[f].style.width, "100%")
               /\ R.n[wrapper].style.height =
                      OrElse(nodes[f].style.height, "315px")
               /\ R.n[f].style.position = "absolute"
               /\ R.n[f].style.width = "1px"
               /\ R.n[f].style.height = "1px"
               /\ R.n[f].style.opacity = "0"
               /\ R.n[f].style.visibility = "hidden"

\* the first iframe, which the host sized 560px by 200px, is in a wrapper
\* of that size where the host put it, the body, and is itself 1px wide
C7_Witness ==
    LET wrapper == parentElement(nodes, Frame1)
    IN  /\ wrapper # NoNode
        /\ nodes[wrapper].kind = "wrapper"
        /\ parentElement(nodes, wrapper) = Body
        /\ nodes[wrapper].style.width = "560px"
        /\ nodes[wrapper].style.height = "200px"
        /\ nodes[Frame1].style.width = "1px"
        /\ nodes[Frame1].style.position = "absolute"

\* C10 (no-parent precondition).  createContentPlaceholder called on an
\* iframe that has no parent element raises an error to its caller and
\* leaves that iframe and every other element unchanged; no wrapper or
\* marker is created.
C10_NoParentPrecondition ==
    \A f \in {x \in DOMAIN nodes : nodes[x].kind = "iframe"} :
        LET R == createContentPlaceholder(World, f, nodes[f].src)
        IN  parentElement(nodes, f) = NoNode
            => /\ R.threw
               /\ R.n = nodes
               /\ R.next = nextId

\* a callback has just thrown on the first iframe, which the host had
\* taken out of the document before its insertion was delivered, and the
\* iframe is as the host made it
C10_Witness ==
    /\ uncaught
    /\ parentElement(nodes, Frame1) = NoNode
    /\ nodes[Frame1] = InitialNodes[Frame1]

\* a node of a batch matches the keyword list of the observer that gets it
\* (lines 208-212 and 220-225)
MatchesWatcher(n, o, x) ==
    /\ o.observing
    /\ Truthy(n[x].src)
    /\ someIncludes(o.kw, n[x].src)
    /\ n[x].kind = "iframe" => n[x].src # AboutBlank

\* C11 (fault isolation in the watcher).  If processing one added node of a
\* mutation batch fails, every other matching script or iframe reported in
\* the same batch is still removed or blocked.
C11_FaultIsolation ==
    blockingEnabled /\ Pending(World) =>
        LET R == notifyMutationObservers(World, blockingEnabled)
        IN  \A i \in 1..Len(observers) :
            \A j \in 1..Len(observers[i].queue) :
                LET x == observers[i].queue[j]
                IN  /\ R.reported
                    /\ MatchesWatcher(nodes, observers[i], x)
                    /\ parentElement(nodes, x) # NoNode
                    => /\ nodes[x].kind = "script"
                          => parentElement(R.n, x) = NoNode
                       /\ nodes[x].kind = "iframe"
                          => /\ R.n[x].cb = AttrTrue
                             /\ R.n[x].src = AboutBlank

\* the scripts of the document
Scripts(n) == Range(querySelectorAll(n, Html, "script"))

\* C12 (script removal).  With blocking enabled, every script whose src
\* contains a keyword is removed from the document, both those present when
\* blockTrackingScripts is called and those inserted while the watcher is
\* connected (by the end of the callback turn that delivers the insertion);
\* removed scripts are not wrapped and carry no restoration record.
C12_ScriptRemoval ==
    blockingEnabled =>
        /\ \A K \in KeywordLists :
              LET R == blockTrackingScripts(World, blockingEnabled, K)
              IN  \A x \in Scripts(nodes) :
                      LET src == srcProperty(nodes[x].src)
                      IN  Truthy(src) /\ someIncludes(K, src)
                          => /\ ~InDocument(R.n, x)
                             /\ parentElement(R.n, x) = NoNode
                             /\ R.n[x] = nodes[x]
        /\ LET R == notifyMutationObservers(World, blockingEnabled)
           IN  \A i \in 1..Len(observers) :
               \A j \in 1..Len(observers[i].queue) :
                   LET x == observers[i].queue[j]
                   IN  /\ nodes[x].kind = "script"
                       /\ InDocument(nodes, x)
                       /\ MatchesWatcher(nodes, observers[i], x)
                       => /\ ~InDocument(R.n, x)
                          /\ parentElement(R.n, x) = NoNode
                          /\ R.n[x] = nodes[x]

\* C13 (disabling is a circuit breaker, not a restore).
\* setBlockingEnabled(false) leaves every blocked iframe blocked and
\* wrapped, and while the flag is off no watcher callback and no
\* blockTrackingScripts call removes a script or blocks an iframe, although
\* the observers returned before stay connected.
C13_CircuitBreaker ==
    [][(/\ ~blockingEnabled'
        /\ \/ SetBlockingEnabled(FALSE)
           \/ MutationCallbackTurn
           \/ \E K \in KeywordLists : BlockTrackingScripts(K))
       => /\ nodes' = nodes
          /\ \A i \in 1..Len(observers) :
                /\ i <= Len(observers')
                /\ observers'[i].observing = observers[i].observing
                /\ observers'[i].kw = observers[i].kw]_vars

\* blocking is off, a connected observer whose keywords match the first
\* iframe has no record left to deliver, the first iframe is in the body as
\* the host made it, and the second iframe is still blocked in its wrapper
C13_Witness ==
    /\ ~blockingEnabled
    /\ Len(observers) = 1
    /\ observers[1].observing
    /\ observers[1].queue = <<>>
    /\ someIncludes(observers[1].kw, UrlT)
    /\ parentElement(nodes, Frame1) = Body
    /\ nodes[Frame1] = InitialNodes[Frame1]
    /\ InDocument(nodes, Frame2)
    /\ nodes[Frame2].cb = AttrTrue
    /\ nodes[Frame2].src = AboutBlank
    /\ nodes[parentElement(nodes, Frame2)].kind = "wrapper"

\* the wrappers, in the document or not
Wrappers(n) == {w \in DOMAIN n : n[w].kind = "wrapper"}

\* C14 (no double block).  Under any sequence of blockTrackingScripts calls
\* and mutation callbacks, several watchers connected at once included, an
\* iframe is wrapped at most once: no wrapper is nested inside another
\* wrapper and no blocked iframe's data-original-src is about:blank.
C14_NoDoubleBlock ==
    /\ \A w \in Wrappers(nodes) :
          \A d \in Range(Descendants(nodes, w)) : nodes[d].kind # "wrapper"
    /\ \A f \in {x \in DOMAIN nodes : nodes[x].kind = "iframe"} :
          /\ nodes[f].os # AboutBlank
          /\ Cardinality({w \in Wrappers(nodes) :
                             Has(Descendants(nodes, w), f)}) <= 1

\* two connected observers whose keywords both match the second iframe
\* have delivered all their records, and the second iframe, blocked by a
\* callback (the recorded URL is the src attribute), is in one wrapper in
\* the body
C14_Witness ==
    /\ Len(observers) = 2
    /\ \A i \in 1..2 :
          /\ observers[i].observing
          /\ observers[i].queue = <<>>
          /\ someIncludes(observers[i].kw, UrlRel)
    /\ nodes[Frame2].cb = AttrTrue
    /\ nodes[Frame2].os = UrlRel
    /\ nodes[parentElement(nodes, Frame2)].kind = "wrapper"
    /\ parentElement(nodes, parentElement(nodes, Frame2)) = Body

\* C15 (invariant I1).  In every state reachable between operations, every
\* iframe in the document that carries data-cookie-blocked="true" has src
\* about:blank, and every iframe the restorer restores carries neither the
\* blocked marker nor the neutral src.
C15_InvariantI1 ==
    /\ \A f \in Iframes(nodes) :
          nodes[f].cb = AttrTrue => nodes[f].src = AboutBlank
    /\ \A K \in KeywordLists :
          LET R == unblockPreviouslyBlockedContent(World, K)
          IN  \A f \in Range(blockedIframes(nodes)) :
                  R.n[f] # nodes[f]
                  => /\ R.n[f].cb = NoAttr
                     /\ R.n[f].os = NoAttr
                     /\ R.n[f].src # AboutBlank

\* the first iframe stands restored in its div in the document, with the
\* URL the host gave it, while the second iframe is blocked
C15_Witness ==
    /\ parentElement(nodes, Frame1) = Div
    /\ InDocument(nodes, Div)
    /\ nodes[Frame1].cb = NoAttr
    /\ nodes[Frame1].src = UrlT
    /\ nodes[Frame1].style = NoStyle
    /\ InDocument(nodes, Frame2)
    /\ nodes[Frame2].cb = AttrTrue
    /\ nodes[Frame2].src = AboutBlank

\* C16 (invariant I2).  Every iframe blocked by the sweep or by a watcher
\* callback has a non-empty data-original-src for as long as it carries
\* the blocked marker.
C16_InvariantI2 ==
    \A f \in {x \in DOMAIN nodes : nodes[x].kind = "iframe"} :
        nodes[f].cb = AttrTrue => Truthy(nodes[f].os)

\* both iframes are blocked in the document, the first with the URL the
\* sweep or a callback read, the second with the src attribute a callback
\* read
C16_Witness ==
    /\ InDocument(nodes, Frame1)
    /\ nodes[Frame1].cb = AttrTrue
    /\ nodes[Frame1].os = UrlT
    /\ InDocument(nodes, Frame2)
    /\ nodes[Frame2].cb = AttrTrue
    /\ nodes[Frame2].os = UrlRel

\* the children of x that are of a kind
ChildrenOfKind(n, x, kind) == {k \in Range(n[x].kids) : n[k].kind = kind}

\* I3 on a document: each wrapper in it has exactly one iframe and one
\* marker as children, and each marker's parent is a wrapper
WrappersWhole(n) ==
    /\ \A w \in Wrappers(n) :
          InDocument(n, w)
          => /\ Cardinality(ChildrenOfKind(n, w, "iframe")) = 1
             /\ Cardinality(ChildrenOfKind(n, w, "marker")) = 1
    /\ \A m \in Markers(n) : n[parentElement(n, m)].kind = "wrapper"

\* C17 (invariant I3).  After every completed core operation, each wrapper
\* in the document contains exactly one iframe and exactly one placeholder
\* marker, and each marker's parent is a wrapper: an operation that starts
\* where this holds ends where it holds.
C17_InvariantI3 ==
    WrappersWhole(nodes) =>
        /\ WrappersWhole(ensurePlaceholdersVisible(World).n)
        /\ WrappersWhole(notifyMutationObservers(World, blockingEnabled).n)
        /\ \A K \in KeywordLists :
              /\ WrappersWhole(unblockPreviouslyBlockedContent(World, K).n)
              /\ WrappersWhole(
                     blockTrackingScripts(World, blockingEnabled, K).n)

\* C18 (the repair path never destroys the blocked iframe).  When
\* ensurePlaceholdersVisible finds a wrapper whose blocked-content markup
\* is missing and rebuilds it, the iframe that was inside the wrapper is
\* still a child of that wrapper, in the document, after the call, with src
\* about:blank and its blocked marker and recorded URL intact.
C18_RepairKeepsIframe ==
    LET R == ensurePlaceholdersVisible(World)
    IN  \A w \in Wrappers(nodes) :
        \A f \in ChildrenOfKind(nodes, w, "iframe") :
            /\ InDocument(nodes, w)
            /\ ChildrenOfKind(nodes, w, "marker") # {}
            /\ ~hasContent(nodes, w)
            => /\ parentElement(R.n, f) = w
               /\ InDocument(R.n, f)
               /\ R.n[f].src = AboutBlank
               /\ R.n[f].cb = nodes[f].cb
               /\ R.n[f].os = nodes[f].os

\* C19 (insertion inside a subtree).  A matching iframe that enters the
\* document as a descendant of a newly inserted subtree, rather than as the
\* inserted node itself, is blocked by the watcher like a directly inserted
\* one: here the host's div is inserted into the body and the callback
\* turn that follows is over.
C19_NestedInsertion ==
    blockingEnabled /\ parentElement(nodes, Div) = NoNode =>
        LET R == notifyMutationObservers(insertAtSlot(World, Body, Div),
                                         blockingEnabled)
        IN  \A i \in 1..Len(observers) :
            \A x \in Range(Descendants(nodes, Div)) :
                /\ nodes[x].kind \in {"iframe", "script"}
                /\ nodes[x].cb = NoAttr
                /\ MatchesWatcher(nodes, observers[i], x)
                => IF nodes[x].kind = "script"
                   THEN ~InDocument(R.n, x)
                   ELSE /\ R.n[x].cb = AttrTrue
                        /\ R.n[x].src = AboutBlank
                        /\ R.n[parentElement(R.n, x)].kind = "wrapper"

\* C20 (a flag flip is not retroactive).  A matching iframe whose insertion
\* has been delivered and left it unblocked stays as it is, where it is,
\* through the callback turns that follow setBlockingEnabled(true) with
\* batches that do not hold it.
C20_FlagFlipNotRetroactive ==
    LET R == notifyMutationObservers(World, TRUE)
    IN  \A f \in Iframes(nodes) :
            /\ nodes[f].cb = NoAttr
            /\ \A i \in 1..Len(observers) : ~Has(observers[i].queue, f)
            => /\ R.n[f] = nodes[f]
               /\ parentElement(R.n, f) = parentElement(nodes, f)

\* blocking is on, the one connected observer, whose keywords match both
\* iframes, has delivered every record, the first iframe is in the body as
\* the host made it and the second one was blocked by a callback
C20_Witness ==
    /\ blockingEnabled
    /\ Len(observers) = 1
    /\ observers[1].observing
    /\ observers[1].queue = <<>>
    /\ someIncludes(observers[1].kw, UrlT)
    /\ parentElement(nodes, Frame1) = Body
    /\ nodes[Frame1] = InitialNodes[Frame1]
    /\ nodes[Frame2].cb = AttrTrue
    /\ nodes[Frame2].os = UrlRel
    /\ InDocument(nodes, Frame2)

\* a host iframe that is out of the document and that the one connected
\* watcher would block, no record waiting
InsertableUnderWatcher(x) ==
    /\ parentElement(nodes, x) = NoNode
    /\ nodes[x].cb = NoAttr
    /\ ~Pending(World)
    /\ Len(observers) = 1
    /\ MatchesWatcher(nodes, observers[1], x)

\* x stands blocked in a wrapper of the document
BlockedIn(n, x) ==
    /\ n[x].cb = AttrTrue
    /\ n[x].src = AboutBlank
    /\ InDocument(n, x)
    /\ n[parentElement(n, x)].kind = "wrapper"

RecordedUrls == {UrlT, UrlRel, PageBase \o UrlRel, <<"https://", "yt", "/w">>}

\* the world after other code has set data-original-src of iframe f to O,
\* leaving data-cookie-blocked absent
withRecordedSrc(W, f, O) == [W EXCEPT !.n[f].os = O, !.n[f].cb = NoAttr]

\* the nearest ancestor of x that is not a wrapper
RECURSIVE HostPlace(_, _)
HostPlace(n, x) ==
    LET p == parentElement(n, x)
    IN  IF p = NoNode \/ n[p].kind # "wrapper" THEN p ELSE HostPlace(n, p)

\* C22 (safety-pass fallback).  For a wrapper of the document whose iframe
\* has lost data-cookie-blocked and data-original-src but whose marker
\* still carries data-blocked-src = U, unblockPreviouslyBlockedContent(K)
\* with no keyword of K contained in U sets the iframe's src to U and puts
\* the iframe where the wrapper was, the wrapper leaving the document (a
\* wrapper that stood inside another wrapper with the same recorded URL
\* gives way together with that one, the iframe coming to stand under the
\* host element that held them).
\* When the iframe still has data-original-src, here a value O written by
\* other code that has touched nothing else, O is used in place of U: the
\* iframe stays as it is when a keyword of K is contained in O and is
\* restored to O otherwise.
C22_SafetyFallback ==
    \A K \in KeywordLists : \A m \in Markers(nodes) :
        LET wrapper == parentElement(nodes, m)
            place == parentElement(nodes, wrapper)
            f == querySelector(nodes, wrapper, "iframe")
            U == nodes[m].bsrc
            R == unblockPreviouslyBlockedContent(World, K)
        IN  f # NoNode /\ parentElement(nodes, f) = wrapper =>
              /\ /\ nodes[f].cb = NoAttr
                 /\ nodes[f].os = NoAttr
                 /\ Truthy(U)
                 /\ ~someIncludes(K, U)
                 => /\ R.n[f].src = U
                    /\ parentElement(R.n, f) = HostPlace(nodes, wrapper)
                    /\ InDocument(R.n, f)
                    /\ ~InDocument(R.n, wrapper)
              /\ interfered = 0 => \A O \in RecordedUrls :
                    LET E == withRecordedSrc(World, f, O)
                        RE == unblockPreviouslyBlockedContent(E, K)
                    IN  IF someIncludes(K, O)
                        THEN /\ RE.n[f] = E.n[f]
                             /\ parentElement(RE.n, f) = wrapper
                             /\ InDocument(RE.n, wrapper)
                        ELSE /\ RE.n[f].src = O
                             /\ parentElement(RE.n, f) = place
                             /\ ~InDocument(RE.n, wrapper)

\* other code has stripped the first iframe, still in its wrapper in the
\* body, of both attributes, the marker records the URL the host gave the
\* iframe, and a restorer call with keywords that match another URL only
\* gives the iframe that URL and the wrapper's place
C22_Witness ==
    LET wrapper == parentElement(nodes, Frame1)
        R == unblockPreviouslyBlockedContent(World, KV)
    IN  /\ interfered > 0
        /\ wrapper # NoNode
        /\ nodes[wrapper].kind = "wrapper"
        /\ parentElement(nodes, wrapper) = Body
        /\ nodes[Frame1].cb = NoAttr
        /\ nodes[Frame1].os = NoAttr
        /\ nodes[Frame1].src = AboutBlank
        /\ \E m \in Markers(nodes) :
              parentElement(nodes, m) = wrapper /\ nodes[m].bsrc = UrlT
        /\ R.n[Frame1].src = UrlT
        /\ parentElement(R.n, Frame1) = Body

\* C23 (orphaned wrapper).  When unblockPreviouslyBlockedContent(K) meets a
\* wrapper that holds a marker but no iframe, and the marker's recorded URL
\* contains no keyword of K, the wrapper and its marker are out of the
\* document after the call, the call throws nothing, and every other
\* wrapper's iframe whose recorded URL contains no keyword of K is
\* restored: it has that URL as src, no attribute of the core, and its
\* wrapper is out of the document.
C23_OrphanedWrapper ==
    \A K \in KeywordLists : \A m \in Markers(nodes) :
        LET wrapper == parentElement(nodes, m)
            R == unblockPreviouslyBlockedContent(World, K)
        IN  /\ querySelector(nodes, wrapper, "iframe") = NoNode
            /\ Truthy(nodes[m].bsrc)
            /\ ~someIncludes(K, nodes[m].bsrc)
            => /\ ~InDocument(R.n, wrapper)
               /\ ~InDocument(R.n, m)
               /\ ~R.threw
               /\ \A f \in Range(blockedIframes(nodes)) :
                     LET w2 == parentElement(nodes, f)
                     IN  /\ nodes[w2].kind = "wrapper"
                         /\ Truthy(nodes[f].os)
                         /\ ~someIncludes(K, nodes[f].os)
                         => /\ R.n[f].src = nodes[f].os
                            /\ R.n[f].cb = NoAttr
                            /\ R.n[f].os = NoAttr
                            /\ ~InDocument(R.n, w2)

\* other code has taken the first iframe out of its wrapper and away; the
\* wrapper, left with its marker alone, stands in the body before the
\* wrapper of the blocked second iframe, and a restorer call with no
\* keyword removes the one and unwraps the other
C23_Witness ==
    LET R == unblockPreviouslyBlockedContent(World, <<>>)
    IN  /\ parentElement(nodes, Frame1) = NoNode
        /\ \E m \in Markers(nodes) :
              LET wrapper == parentElement(nodes, m)
              IN  /\ nodes[wrapper].kids = <<m>>
                  /\ parentElement(nodes, wrapper) = Body
                  /\ nodes[m].bsrc = UrlT
        /\ nodes[Frame2].cb = AttrTrue
        /\ InDocument(nodes, Frame2)
        /\ Markers(R.n) = {}
        /\ R.n[Body].kids = <<Frame2>>

\* C24 (the enforcer re-asserts blocking).  After ensurePlaceholdersVisible
\* every iframe that lies inside a wrapper of the document holding a
\* marker, and carries data-original-src, has src about:blank, even if
\* other code had set its src to another value.  The call changes no
\* node's data-original-src, data-cookie-blocked or data-blocked-src, and
\* it unwraps no iframe: every element that is not a wrapper keeps its
\* children, so every wrapper keeps its place and no iframe takes it.
C24_EnforcerReasserts ==
    LET R == ensurePlaceholdersVisible(World)
    IN  /\ \A m \in Markers(R.n) :
              LET wrapper == parentElement(R.n, m)
              IN  \A f \in Range(Descendants(R.n, wrapper)) :
                      R.n[f].kind = "iframe" /\ R.n[f].os # NoAttr
                      => srcProperty(R.n[f].src) = AboutBlank
        /\ \A x \in DOMAIN nodes :
              /\ R.n[x].os = nodes[x].os
              /\ R.n[x].cb = nodes[x].cb
              /\ R.n[x].bsrc = nodes[x].bsrc
              /\ nodes[x].kind # "wrapper" => R.n[x].kids = nodes[x].kids

\* other code has set the src of the blocked first iframe back to the
\* host's URL; the iframe is still in its wrapper with its recorded URL,
\* and an enforcer call makes its src about:blank again, leaving it there
C24_Witness ==
    LET wrapper == parentElement(nodes, Frame1)
        R == ensurePlaceholdersVisible(World)
    IN  /\ interfered > 0
        /\ wrapper # NoNode
        /\ nodes[wrapper].kind = "wrapper"
        /\ InDocument(nodes, wrapper)
        /\ \E m \in Markers(nodes) : parentElement(nodes, m) = wrapper
        /\ nodes[Frame1].src = UrlT
        /\ nodes[Frame1].os = UrlT
        /\ R.n[Frame1].src = AboutBlank
        /\ parentElement(R.n, Frame1) = wrapper

\* src attributes a host element may carry
SrcValues == {NoAttr, <<>>, AboutBlank, UrlUpper, UrlT, UrlRel, UrlS}

\* the tests of lines 181-184, 192-197, 209-213 and 221-226 fail for an
\* element of this kind with this URL
Unmatched(kind, url, K) ==
    \/ ~Truthy(url)
    \/ ~someIncludes(K, url)
    \/ kind = "iframe" /\ url = AboutBlank

\* C25 (matching is exact and nothing else is touched).  An iframe or
\* script whose URL contains none of the keywords (a keyword in another
\* case is not contained), or an iframe whose src is empty or
\* about:blank, keeps its parent, its attributes and its styles through
\* blockTrackingScripts, which reads the src property, and through a
\* callback turn of the watchers, which read the src attribute; the host's
\* iframes and script are taken with every src value of SrcValues.
C25_ExactMatching ==
    \A x \in {Frame1, Frame2, Script1} : \A s \in SrcValues :
        LET E == [World EXCEPT !.n[x].src = s]
            kind == nodes[x].kind
            RN == notifyMutationObservers(E, blockingEnabled)
        IN  /\ \A K \in KeywordLists \cup {KA} :
                  LET R == blockTrackingScripts(E, blockingEnabled, K)
                  IN  InDocument(nodes, x) /\ Unmatched(kind, srcProperty(s), K)
                      => /\ R.n[x] = E.n[x]
                         /\ parentElement(R.n, x) = parentElement(nodes, x)
            /\ (\A i \in 1..Len(observers) :
                    observers[i].observing =>
                        Unmatched(kind, s, observers[i].kw))
               => /\ RN.n[x] = E.n[x]
                  /\ parentElement(RN.n, x) = parentElement(nodes, x)

\* blocking is on, the one connected watcher has keywords that match the
\* second iframe and neither the first iframe nor the script, every record
\* is delivered, the second iframe is blocked and the first iframe and the
\* script stand in the body as the host made them
C25_Witness ==
    /\ blockingEnabled
    /\ Len(observers) = 1
    /\ observers[1].observing
    /\ observers[1].kw = KV
    /\ observers[1].queue = <<>>
    /\ nodes[Frame2].cb = AttrTrue
    /\ InDocument(nodes, Frame2)
    /\ parentElement(nodes, Frame1) = Body
    /\ nodes[Frame1] = InitialNodes[Frame1]
    /\ parentElement(nodes, Script1) = Body
    /\ nodes[Script1] = InitialNodes[Script1]

\* C26 (restoration is stable under a connected watcher).  After
\* unblockPreviouslyBlockedContent(K) has restored an iframe whose recorded
\* URL contains no keyword of K, and the watchers have processed the
\* mutation records the restore itself produced, the iframe is still
\* unblocked: its src is the recorded URL, it carries no blocked marker and
\* it is in no wrapper, whatever the watchers' keyword lists are.
C26_RestorationStable ==
    ~Pending(World) =>
        \A K \in KeywordLists :
            LET R1 == unblockPreviouslyBlockedContent(World, K)
                R2 == notifyMutationObservers(R1, blockingEnabled)
            IN  \A f \in Range(blockedIframes(nodes)) :
                    LET U == nodes[f].os
                    IN  /\ nodes[parentElement(nodes, f)].kind = "wrapper"
                        /\ Truthy(U)
                        /\ ~someIncludes(K, U)
                        => /\ R2.n[f].src = U
                           /\ R2.n[f].cb = NoAttr
                           /\ R2.n[f].os = NoAttr
                           /\ R2.n[parentElement(R2.n, f)].kind # "wrapper"

\* C27 (the wrapper keeps the blocked iframe's declared size).  A call of
\* ensurePlaceholdersVisible leaves the width and height of every wrapper
\* of the document that holds a marker as they were, so that after any
\* number of calls they are still the values the wrapper got at block time
\* from the iframe's inline width and height.
C27_WrapperKeepsSize ==
    LET R == ensurePlaceholdersVisible(World)
    IN  \A m \in Markers(nodes) :
            LET wrapper == parentElement(nodes, m)
            IN  /\ R.n[wrapper].style.width = nodes[wrapper].style.width
                /\ R.n[wrapper].style.height = nodes[wrapper].style.height

\* C28 (the restorer removes only what the core created).  Every element
\* that is in the document before unblockPreviouslyBlockedContent(K) and
\* out of it afterwards is a wrapper created by createContentPlaceholder
\* or the marker of one, and every host element keeps its parent: no
\* host element is replaced or removed, also when an iframe carrying the
\* blocked marker sits directly under a host element.
C28_RestorerRemovesOwnOnly ==
    \A K \in KeywordLists :
        LET R == unblockPreviouslyBlockedContent(World, K)
        IN  \A x \in DOMAIN nodes :
                /\ InDocument(nodes, x) /\ ~InDocument(R.n, x)
                   => nodes[x].kind \in {"wrapper", "marker"}
                /\ x \in {Body, Div, Script1}
                   => parentElement(R.n, x) = parentElement(nodes, x)

\* the timeouts set for a host callback and not yet due
PendingCallbacks(c) ==
    LET host(what) == what \in {"onAccept", "onDecline", "onManage"}
    IN  SelectSeq(c.timers, host)

\* C29 (one consent decision per display).  Whatever the clicks on the
\* controls of one mounted CookieConsenter, the exit path calls at most one
\* of the host callbacks onAccept, onDecline and onManage, at most once,
\* and a click made during the exit animation sets no timeout for a further
\* callback: the callbacks called and the callbacks waiting for their
\* timeout are never more than one together.
C29_OneDecision ==
    Len(consenter.invoked) + Len(PendingCallbacks(consenter)) <= 1

====
